---- MODULE Spec2Model ----
(***************************************************************************)
(* Booking detail page of liloapp (BookingDetailPage): the slot            *)
(* availability resolver, the option generator, the hour toggler, the      *)
(* price breakdown and the confirmation / payment flow.                    *)
(*                                                                         *)
(* Strings are sequences of one-character strings, so that formatting      *)
(* (toString, padStart), parsing (split, parseInt) and the default         *)
(* Array.prototype.sort (by UTF-16 code unit) are modelled by what they do.*)
(* A calendar day is a day number; day 0 is a Monday.  The URL's date and   *)
(* a booking's timestamps are read as the local day and the local whole    *)
(* hour they fall on, which is what getDay, isSameDay and getHours give.   *)
(* A nullable value is a sequence of length 0 or 1.                        *)
(***************************************************************************)
EXTENDS Integers, Sequences, FiniteSets

VARIABLES
    bookingDetails,    \* useState<BookingDetails | null>
    selectedHours,     \* useState<string[]>
    bookings,          \* useState<any[]>: the local bookings snapshot
    activeSchedule,    \* useState<any>: the local weekly schedule, or null
    paymentToken,      \* useState<string | null>
    isLoading,         \* useState(false)
    toast,             \* the last notice shown by react-hot-toast
    confirmPc,         \* the runs of handleConfirmBooking suspended at an
                       \* await, in the order they started
    scheduleFetch,     \* fetchActiveSchedule: "idle", "pending", "ok", "error"
    bookingsReqs,      \* the fetchBookings calls awaiting their response: the
                       \* call's number and the rows its query read
    bookingsFetch,     \* outcome of the last completed fetchBookings
    subscriptions,     \* booking-change subscriptions opened by fetchBookings
    issued,            \* number of fetchBookings calls made so far
    newestOk,          \* the latest-made call among those answered without
                       \* error (call 0 being the initial empty array)
    storeSchedule,     \* the streamer_active_schedules row, if any
    storeBookings,     \* the streamer's rows of the bookings table
    orders,            \* the bookings table by id: the rows that
                       \* handlePaymentSuccess looks up and updates
    notifications,     \* the rows of the notifications table
    route,             \* the page the router shows
    successPc,         \* where handlePaymentSuccess is suspended, or null
    lastSuccess,       \* what the last run of handlePaymentSuccess was given
                       \* and did
    timeOptions,       \* the last value returned by generateTimeOptions
    lastHour,          \* the hour last passed to handleHourSelection
    prevSelected,      \* selectedHours before that call
    twice              \* selectedHours before the call preceding it, when
                       \* both calls toggled the same hour

vars == <<bookingDetails, selectedHours, bookings, activeSchedule, paymentToken,
          isLoading, toast, confirmPc, scheduleFetch, bookingsReqs,
          bookingsFetch, subscriptions, issued, newestOk,
          storeSchedule, storeBookings, orders, notifications, route,
          successPc, lastSuccess, timeOptions, lastHour, prevSelected, twice>>

----------------------------------------------------------------------------
(* Bounds of the model. *)

MaxHour == 12          \* the last hour of the day the model looks at
NumHours == 4          \* how many hours, ending at MaxHour
MaxDay == 0            \* the page and the queries use days 0..MaxDay
MaxSlots == 2          \* TimeSlots per DaySchedule
MaxBookings == 1       \* rows in a bookings snapshot
MaxPrice == 12         \* hourly prices 0..MaxPrice (and two larger ones)
MaxFetches == 3        \* fetchBookings calls the page makes in all
MaxInFlight == 2       \* fetchBookings calls in flight

Hours == (MaxHour - NumHours + 1)..MaxHour
Dates == 0..MaxDay
BookingDays == 0..(MaxDay + 1)

None == <<>>
Some(x) == <<x>>

----------------------------------------------------------------------------
(* Strings. *)

Chars == <<"0", "1", "2", "3", "4", "5", "6", "7", "8", "9", ":">>

\* UTF-16 code unit of a character: "0".."9" are 48..57, ":" is 58.
CodeUnit(c) == 47 + (CHOOSE i \in 1..Len(Chars) : Chars[i] = c)

IsDigit(c) == \E i \in 1..10 : Chars[i] = c

DigitValue(c) == CodeUnit(c) - 48

RECURSIVE ToString(_)
\* Number.prototype.toString() of a non-negative integer.
ToString(n) ==
    IF n < 10 THEN <<Chars[n + 1]>>
    ELSE ToString(n \div 10) \o <<Chars[(n % 10) + 1]>>

RECURSIVE PadStart(_, _, _)
\* String.prototype.padStart(len, ch).
PadStart(s, len, ch) ==
    IF Len(s) >= len THEN s ELSE PadStart(<<ch>> \o s, len, ch)

\* The template `${n.toString().padStart(2, '0')}:00`.
HourLabel(n) == PadStart(ToString(n), 2, "0") \o <<":", "0", "0">>

RECURSIVE SplitHead(_)
\* s.split(':')[0]: the text before the first colon.
SplitHead(s) ==
    IF s = <<>> \/ Head(s) = ":" THEN <<>>
    ELSE <<Head(s)>> \o SplitHead(Tail(s))

RECURSIVE ParseDigits(_, _)
ParseDigits(s, acc) ==
    IF s = <<>> \/ ~IsDigit(Head(s)) THEN acc
    ELSE ParseDigits(Tail(s), 10 * acc + DigitValue(Head(s)))

\* parseInt(s) of a string that starts with a digit: the value of its
\* leading run of digits ("10:00" parses to 10, "09" to 9).
ParseInt(s) == ParseDigits(s, 0)

RECURSIVE StrLess(_, _)
\* a < b as the default sort compares strings: by code units.
StrLess(a, b) ==
    IF b = <<>> THEN FALSE
    ELSE IF a = <<>> THEN TRUE
    ELSE IF Head(a) = Head(b) THEN StrLess(Tail(a), Tail(b))
    ELSE CodeUnit(Head(a)) < CodeUnit(Head(b))

RECURSIVE Insert(_, _)
Insert(x, q) ==
    IF q = <<>> THEN <<x>>
    ELSE IF StrLess(x, Head(q)) THEN <<x>> \o q
    ELSE <<Head(q)>> \o Insert(x, Tail(q))

RECURSIVE SortStrings(_)
\* Array.prototype.sort() without a comparator (a stable sort).
SortStrings(q) ==
    IF q = <<>> THEN <<>>
    ELSE Insert(q[Len(q)], SortStrings(SubSeq(q, 1, Len(q) - 1)))

Includes(q, x) == \E i \in 1..Len(q) : q[i] = x

RECURSIVE Filter(_, _)
\* Array.prototype.filter with the predicate given as a set of kept values.
Filter(q, keep) ==
    IF q = <<>> THEN <<>>
    ELSE (IF Head(q) \in keep THEN <<Head(q)>> ELSE <<>>) \o Filter(Tail(q), keep)

\* Array.from({ length: n }, (_, i) => label(start + i)); a length that is
\* not positive gives the empty array.
HourRange(start, n) == [i \in 1..(IF n > 0 THEN n ELSE 0) |-> HourLabel(start + i - 1)]

Range(q) == {q[i] : i \in 1..Len(q)}

----------------------------------------------------------------------------
(* Data. *)

\* Date.prototype.getDay(): 0 is Sunday; day 0 of the model is a Monday.
GetDay(date) == (date + 1) % 7

\* The half-open hour intervals [s, e) of the model, s < e.
Spans == {p \in Hours \X (Hours \cup {MaxHour + 1}) : p[1] < p[2]}

\* A TimeSlot { start, end } with its hours written "HH:00".
TimeSlots == {[start |-> HourLabel(p[1]), end |-> HourLabel(p[2])] : p \in Spans}

SeqsUpTo(S, n) == UNION {[1..k -> S] : k \in 0..n}

\* A DaySchedule { slots }; the slots field may be missing.
DaySchedules ==
    {[slots |-> None]} \cup
    {[slots |-> Some(q)] : q \in SeqsUpTo(TimeSlots, MaxSlots)}

\* An ActiveSchedule: weekday index -> DaySchedule, for some of the weekdays.
Schedules ==
    UNION {[D -> DaySchedules] : D \in SUBSET {GetDay(d) : d \in Dates}}

\* A row of the bookings table.  start_time and end_time are timestamps, of
\* which the page reads the local calendar day and the local hour; an end
\* hour that is not after the start hour lies on the next day.
BookingRow(day, s, e, st) ==
    [start_time |-> [day |-> day, hour |-> s],
     end_time   |-> [day |-> IF e > s THEN day ELSE day + 1, hour |-> e],
     status     |-> st]

Statuses == {"pending", "accepted", "rejected"}

BookingRows ==
    {BookingRow(day, s, e, st) :
        day \in BookingDays, s \in Hours, e \in Hours, st \in Statuses}

\* The requested windows of the URL: startTime and endTime as "HH:00".
Windows == {<<HourLabel(p[1]), HourLabel(p[2])>> : p \in Spans}

Prices == (0..MaxPrice) \cup {500, 100000}

----------------------------------------------------------------------------
(* 4.1 Availability resolver. *)

\* isSameDay(date, bookingStart) of date-fns.
isSameDay(date, ts) == date = ts.day

\* Mutant of isInSchedule: the slot's end hour counted as inside it.
isInScheduleInclusive(slots, hour) ==
    \E i \in 1..Len(slots) :
        LET start == ParseInt(SplitHead(slots[i].start))
            end   == ParseInt(SplitHead(slots[i].end))
        IN  hour >= start /\ hour <= end

isInSchedule(slots, hour) ==
    \E i \in 1..Len(slots) :
        LET start == ParseInt(SplitHead(slots[i].start))
            end   == ParseInt(SplitHead(slots[i].end))
        IN  hour >= start /\ hour < end

\* Mutant of bookingBlocks: the booking's first hour left free.
bookingBlocksLate(booking, date, hour) ==
    LET bookingStart == booking.start_time
        bookingEnd   == booking.end_time
    IN  /\ isSameDay(date, bookingStart)
        /\ \/ (hour > bookingStart.hour /\ hour < bookingEnd.hour)
           \/ (hour = bookingEnd.hour /\ bookingEnd.hour > bookingStart.hour)

bookingBlocks(booking, date, hour) ==
    LET bookingStart == booking.start_time
        bookingEnd   == booking.end_time
    IN  /\ isSameDay(date, bookingStart)
        /\ \/ (hour >= bookingStart.hour /\ hour < bookingEnd.hour)
           \/ (hour = bookingEnd.hour /\ bookingEnd.hour > bookingStart.hour)

bookingExists(date, hour) ==
    \E i \in 1..Len(bookings) : bookingBlocks(bookings[i], date, hour)

isSlotAvailable(date, hour) ==
    IF bookingDetails = None \/ activeSchedule = None THEN FALSE
    ELSE LET schedule == activeSchedule[1] IN
         IF GetDay(date) \notin DOMAIN schedule THEN FALSE
         ELSE LET daySchedule == schedule[GetDay(date)] IN
              IF daySchedule.slots = None THEN FALSE
              ELSE /\ isInSchedule(daySchedule.slots[1], hour)
                   /\ ~bookingExists(date, hour)

----------------------------------------------------------------------------
(* 4.2 Slot option generator. *)

\* Mutant of generateTimeOptions: the window's end hour offered too.
generateTimeOptionsInclusive ==
    IF bookingDetails = None THEN <<>>
    ELSE LET details == bookingDetails[1]
             start   == ParseInt(SplitHead(details.startTime))
             end     == ParseInt(SplitHead(details.endTime))
             options == HourRange(start, end - start + 1)
         IN  Filter(options,
                    {hour \in Range(options) :
                        isSlotAvailable(details.date, ParseInt(hour))})

generateTimeOptions ==
    IF bookingDetails = None THEN <<>>
    ELSE LET details == bookingDetails[1]
             start   == ParseInt(SplitHead(details.startTime))
             end     == ParseInt(SplitHead(details.endTime))
             options == HourRange(start, end - start)
         IN  Filter(options,
                    {hour \in Range(options) :
                        isSlotAvailable(details.date, ParseInt(hour))})

----------------------------------------------------------------------------
(* 4.3 Contiguous selection toggler: the updater of handleHourSelection. *)

\* Mutant of ToggledSelection: the span returned without the availability filter.
ToggledSelectionUnfiltered(prevSel, hour) ==
    IF Includes(prevSel, hour)
    THEN Filter(prevSel, Range(prevSel) \ {hour})
    ELSE LET newSelected == SortStrings(Append(prevSel, hour)) IN
         IF Len(newSelected) > 1
         THEN LET start == newSelected[1]
                  end   == newSelected[Len(newSelected)]
                  span  == HourRange(ParseInt(start),
                                     ParseInt(end) - ParseInt(start) + 1)
              IN  span
         ELSE newSelected

\* Mutant of ToggledSelection: the span one hour short (length end - start).
ToggledSelectionShort(prevSel, hour) ==
    IF Includes(prevSel, hour)
    THEN Filter(prevSel, Range(prevSel) \ {hour})
    ELSE LET newSelected == SortStrings(Append(prevSel, hour)) IN
         IF Len(newSelected) > 1
         THEN LET start == newSelected[1]
                  end   == newSelected[Len(newSelected)]
                  span  == HourRange(ParseInt(start),
                                     ParseInt(end) - ParseInt(start))
              IN  Filter(span,
                         {h \in Range(span) :
                             isSlotAvailable(bookingDetails[1].date, ParseInt(h))})
         ELSE newSelected

\* Mutant of ToggledSelection: the span one hour long (length end - start + 2).
ToggledSelectionOverrun(prevSel, hour) ==
    IF Includes(prevSel, hour)
    THEN Filter(prevSel, Range(prevSel) \ {hour})
    ELSE LET newSelected == SortStrings(Append(prevSel, hour)) IN
         IF Len(newSelected) > 1
         THEN LET start == newSelected[1]
                  end   == newSelected[Len(newSelected)]
                  span  == HourRange(ParseInt(start),
                                     ParseInt(end) - ParseInt(start) + 2)
              IN  Filter(span,
                         {h \in Range(span) :
                             isSlotAvailable(bookingDetails[1].date, ParseInt(h))})
         ELSE newSelected

\* Mutant of ToggledSelection: the new hour appended without sorting.
ToggledSelectionUnsorted(prevSel, hour) ==
    IF Includes(prevSel, hour)
    THEN Filter(prevSel, Range(prevSel) \ {hour})
    ELSE LET newSelected == Append(prevSel, hour) IN
         IF Len(newSelected) > 1
         THEN LET start == newSelected[1]
                  end   == newSelected[Len(newSelected)]
                  span  == HourRange(ParseInt(start),
                                     ParseInt(end) - ParseInt(start) + 1)
              IN  Filter(span,
                         {h \in Range(span) :
                             isSlotAvailable(bookingDetails[1].date, ParseInt(h))})
         ELSE newSelected

ToggledSelection(prevSel, hour) ==
    IF Includes(prevSel, hour)
    THEN Filter(prevSel, Range(prevSel) \ {hour})
    ELSE LET newSelected == SortStrings(Append(prevSel, hour)) IN
         IF Len(newSelected) > 1
         THEN LET start == newSelected[1]
                  end   == newSelected[Len(newSelected)]
                  span  == HourRange(ParseInt(start),
                                     ParseInt(end) - ParseInt(start) + 1)
              IN  Filter(span,
                         {h \in Range(span) :
                             isSlotAvailable(bookingDetails[1].date, ParseInt(h))})
         ELSE newSelected

----------------------------------------------------------------------------
(* 4.4 Price breakdown, computed at every render.  Amounts are held in     *)
(* thousandths, in which the three intermediate values are exact; on       *)
(* integer subtotals up to 2,000,000 the double arithmetic of the page     *)
(* gives the same total.                                                  *)

PlatformFeePct == 30
TaxPct == 11

Percent(x, pct) == (x \div 100) * pct

\* Mutant of MathRound: the fraction dropped (Math.floor).
MathFloor(x) == x \div 1000

\* Math.round: to the nearest integer, a half towards +Infinity.
MathRound(x) == (2 * x + 1000) \div 2000

subtotal == bookingDetails[1].price * Len(selectedHours) * 1000
platformFee == Percent(subtotal, PlatformFeePct)
subtotalWithPlatformFee == subtotal + platformFee
tax == Percent(subtotalWithPlatformFee, TaxPct)
total == MathRound(subtotalWithPlatformFee + tax)

----------------------------------------------------------------------------
(* The page as a state machine. *)

storeVars == <<storeSchedule, storeBookings>>
fetchVars == <<scheduleFetch, bookingsReqs, bookingsFetch, subscriptions,
               issued, newestOk>>
successVars == <<orders, notifications, route, successPc, lastSuccess>>
dataVars  == <<bookings, activeSchedule>>
payVars   == <<paymentToken, isLoading, confirmPc>>
histVars  == <<timeOptions, lastHour, prevSelected, twice>>

HourLabels == {HourLabel(h) : h \in Hours}

\* The rows the bookings query returns: those of the streamer whose status
\* is accepted or pending.
FetchedBookings(rows) ==
    SelectSeq(rows, LAMBDA row : row.status \in {"accepted", "pending"})

\* A call of fetchBookings: the query goes out and reads the table's rows of
\* the streamer whose status is accepted or pending.
FetchCall(n, rows) == [seq |-> n, rows |-> FetchedBookings(rows)]

\* The page this component is, and the one handlePaymentSuccess pushes.
BookingPage == "/booking-detail"
ClientBookings == "/client-bookings"

\* No run of handleConfirmBooking is suspended.
Idle == <<>>

\* The component as constructed: every useState at its initial value,
\* nothing requested yet.
Constructed ==
    /\ bookingDetails = None
    /\ selectedHours = <<>>
    /\ bookings = <<>>
    /\ activeSchedule = None
    /\ paymentToken = None
    /\ isLoading = FALSE
    /\ toast = "none"
    /\ confirmPc = Idle
    /\ scheduleFetch = "idle"
    /\ bookingsReqs = {}
    /\ bookingsFetch = "none"
    /\ subscriptions = 0
    /\ issued = 0
    /\ newestOk = FetchCall(0, <<>>)
    /\ route = BookingPage
    /\ successPc = None
    /\ lastSuccess = None
    /\ timeOptions = None
    /\ lastHour = None
    /\ prevSelected = <<>>
    /\ twice = None

\* useEffect on mount: reads the URL parameters, initialises selectedHours
\* from the requested window and starts both fetches.
PageLoad(date, startTime, endTime, price) ==
    /\ bookingDetails = None
    /\ bookingDetails' = Some([date |-> date, startTime |-> startTime,
                               endTime |-> endTime, price |-> price])
    /\ selectedHours' =
          IF startTime # <<>> /\ endTime # <<>>
          THEN LET start == ParseInt(SplitHead(startTime))
                   end   == ParseInt(SplitHead(endTime))
               IN  HourRange(start, end - start)
          ELSE selectedHours
    /\ bookingsReqs' = bookingsReqs \cup {FetchCall(issued + 1, storeBookings)}
    /\ issued' = issued + 1
    /\ scheduleFetch' = "pending"
    /\ UNCHANGED <<dataVars, payVars, histVars, storeVars, successVars, toast,
                   bookingsFetch, subscriptions, newestOk>>

\* fetchBookings resumes with the response to one of the calls in flight,
\* whichever answers first: stores the rows or reports the error, then opens
\* a subscription to the table's changes.
FetchBookingsResponse(req, ok) ==
    /\ req \in bookingsReqs
    /\ bookingsReqs' = bookingsReqs \ {req}
    /\ IF ok
       THEN /\ bookings' = req.rows
            /\ bookingsFetch' = "ok"
            /\ newestOk' = IF req.seq > newestOk.seq THEN req ELSE newestOk
            /\ UNCHANGED toast
       ELSE /\ toast' = "Failed to fetch bookings"
            /\ bookingsFetch' = IF bookingsFetch = "ok" THEN "ok" ELSE "error"
            /\ UNCHANGED <<bookings, newestOk>>
    /\ subscriptions' = subscriptions + 1
    /\ UNCHANGED <<bookingDetails, selectedHours, activeSchedule, payVars,
                   histVars, storeVars, successVars, scheduleFetch, issued>>

\* A row of the table changes; every open subscription calls fetchBookings.
BookingChange(rows) ==
    /\ rows # storeBookings
    /\ Cardinality(bookingsReqs) + subscriptions <= MaxInFlight
    /\ issued + subscriptions <= MaxFetches
    /\ storeBookings' = rows
    /\ bookingsReqs' = bookingsReqs \cup
                          {FetchCall(issued + k, rows) : k \in 1..subscriptions}
    /\ issued' = issued + subscriptions
    /\ UNCHANGED <<bookingDetails, selectedHours, dataVars, payVars, histVars,
                   successVars, toast, storeSchedule, scheduleFetch,
                   bookingsFetch, subscriptions, newestOk>>

\* fetchActiveSchedule resumes: .single() reports an error when there is no
\* row (or the request failed); otherwise the schedule is parsed and stored.
FetchActiveScheduleResponse(ok) ==
    /\ scheduleFetch = "pending"
    /\ IF ok /\ storeSchedule # None
       THEN /\ activeSchedule' = storeSchedule
            /\ scheduleFetch' = "ok"
       ELSE /\ scheduleFetch' = "error"
            /\ UNCHANGED activeSchedule
    /\ UNCHANGED <<bookingDetails, selectedHours, bookings, payVars, histVars,
                   storeVars, successVars, toast, bookingsReqs, bookingsFetch,
                   subscriptions, issued, newestOk>>

\* generateTimeOptions is called and its value kept.
RenderTimeOptions ==
    /\ bookingDetails # None
    /\ timeOptions' = Some(generateTimeOptions)
    /\ UNCHANGED <<bookingDetails, selectedHours, dataVars, payVars, storeVars,
                   successVars, fetchVars, toast, lastHour, prevSelected, twice>>

handleHourSelection(hour) ==
    /\ bookingDetails # None
    /\ selectedHours' = ToggledSelection(selectedHours, hour)
    /\ lastHour' = Some(hour)
    /\ prevSelected' = selectedHours
    /\ twice' = IF lastHour = Some(hour) THEN Some(prevSelected) ELSE None
    /\ UNCHANGED <<bookingDetails, dataVars, payVars, storeVars, successVars,
                   fetchVars, toast, timeOptions>>

----------------------------------------------------------------------------
(* 4.5 Confirmation and payment. *)

\* A run of handleConfirmBooking suspended at an await: where it is, and the
\* selectedHours of the render whose handler was clicked (the closure's).
ConfirmRun(at, hours) == [at |-> at, hours |-> hours]

RunsAt(at) == {i \in 1..Len(confirmPc) : confirmPc[i].at = at}

RemoveAt(q, i) == SubSeq(q, 1, i - 1) \o SubSeq(q, i + 1, Len(q))

\* The click handler without its isLoading test.
ConfirmClickUnguarded ==
    /\ bookingDetails # None
    /\ isLoading' = TRUE
    /\ confirmPc' = Append(confirmPc, ConfirmRun("getUser", selectedHours))
    /\ UNCHANGED <<bookingDetails, selectedHours, dataVars, histVars, storeVars,
                   successVars, fetchVars, toast, paymentToken>>

\* The Bayar button (disabled while isLoading) runs handleConfirmBooking up
\* to its first await, supabase.auth.getUser().  setIsLoading(true) comes
\* before that await and the click is a discrete event, so the render that
\* follows is flushed before another click is handled: the handler's
\* isLoading is the current one.
ConfirmClick ==
    /\ bookingDetails # None
    /\ ~isLoading
    /\ isLoading' = TRUE
    /\ confirmPc' = Append(confirmPc, ConfirmRun("getUser", selectedHours))
    /\ UNCHANGED <<bookingDetails, selectedHours, dataVars, histVars, storeVars,
                   successVars, fetchVars, toast, paymentToken>>

\* getUser resolving, for a handler that returns without a user before it
\* has entered the try block: no notice, isLoading left as it is.
GetUserResponseSilent(i, user) ==
    /\ i \in RunsAt("getUser")
    /\ IF ~user
       THEN /\ confirmPc' = RemoveAt(confirmPc, i)
            /\ UNCHANGED <<toast, isLoading>>
       ELSE IF confirmPc[i].hours = <<>>
       THEN /\ toast' = "Failed to initiate payment. Please try again."
            /\ isLoading' = FALSE
            /\ confirmPc' = RemoveAt(confirmPc, i)
       ELSE /\ confirmPc' = [confirmPc EXCEPT ![i].at = "createPayment"]
            /\ UNCHANGED <<toast, isLoading>>
    /\ UNCHANGED <<bookingDetails, selectedHours, dataVars, histVars, storeVars,
                   successVars, fetchVars, paymentToken>>

\* getUser resolves.  Without a user the handler shows a notice and returns
\* through finally.  With one it builds the request: with no hour selected,
\* formatting `${date}T${selectedHours[0]}` throws, which the catch block
\* reports; otherwise the request to /api/payments/create is sent.
GetUserResponse(i, user) ==
    /\ i \in RunsAt("getUser")
    /\ IF ~user
       THEN /\ toast' = "You must be logged in to confirm a booking."
            /\ isLoading' = FALSE
            /\ confirmPc' = RemoveAt(confirmPc, i)
       ELSE IF confirmPc[i].hours = <<>>
       THEN /\ toast' = "Failed to initiate payment. Please try again."
            /\ isLoading' = FALSE
            /\ confirmPc' = RemoveAt(confirmPc, i)
       ELSE /\ confirmPc' = [confirmPc EXCEPT ![i].at = "createPayment"]
            /\ UNCHANGED <<toast, isLoading>>
    /\ UNCHANGED <<bookingDetails, selectedHours, dataVars, histVars, storeVars,
                   successVars, fetchVars, paymentToken>>

\* The payment request completing, for a handler whose failures leave
\* through the catch block without a finally: isLoading stays set.
CreatePaymentResponseSticky(i, outcome) ==
    /\ i \in RunsAt("createPayment")
    /\ IF outcome = "token"
       THEN /\ paymentToken' = Some("token")
            /\ isLoading' = FALSE
            /\ UNCHANGED toast
       ELSE /\ toast' = "Failed to initiate payment. Please try again."
            /\ UNCHANGED <<paymentToken, isLoading>>
    /\ confirmPc' = RemoveAt(confirmPc, i)
    /\ UNCHANGED <<bookingDetails, selectedHours, dataVars, histVars, storeVars,
                   successVars, fetchVars>>

\* The payment request completes: "token" is an OK response carrying a
\* token; a response that is not OK, one without a token and a transport
\* error all end in the catch block.
CreatePaymentResponse(i, outcome) ==
    /\ i \in RunsAt("createPayment")
    /\ IF outcome = "token"
       THEN /\ paymentToken' = Some("token")
            /\ UNCHANGED toast
       ELSE /\ toast' = "Failed to initiate payment. Please try again."
            /\ UNCHANGED paymentToken
    /\ isLoading' = FALSE
    /\ confirmPc' = RemoveAt(confirmPc, i)
    /\ UNCHANGED <<bookingDetails, selectedHours, dataVars, histVars, storeVars,
                   successVars, fetchVars>>

PaymentOutcomes == {"token", "notOk", "noToken", "networkError"}

handlePaymentPending ==
    /\ toast' = "Payment pending. Please complete the payment."
    /\ UNCHANGED <<bookingDetails, selectedHours, dataVars, payVars, histVars,
                   storeVars, successVars, fetchVars>>

handlePaymentError ==
    /\ toast' = "Payment failed. Please try again."
    /\ UNCHANGED <<bookingDetails, selectedHours, dataVars, payVars, histVars,
                   storeVars, successVars, fetchVars>>

handlePaymentClose ==
    /\ paymentToken' = None
    /\ UNCHANGED <<bookingDetails, selectedHours, dataVars, histVars, storeVars,
                   successVars, fetchVars, toast, isLoading, confirmPc>>

----------------------------------------------------------------------------
(* handlePaymentSuccess. *)

RECURSIVE SplitOn(_, _)
\* String.prototype.split(sep) for a one-character separator.
SplitOn(s, sep) ==
    IF s = <<>> THEN <<<<>>>>
    ELSE LET rest == SplitOn(Tail(s), sep)
         IN  IF Head(s) = sep THEN <<<<>>>> \o rest
             ELSE <<<<Head(s)>> \o Head(rest)>> \o Tail(rest)

\* parseInt(s, 10) of text without sign or leading blanks: the value of the
\* leading run of digits, or NaN (null here) when there is none.
ParseIntOrNaN(s) ==
    IF s = <<>> \/ ~IsDigit(Head(s)) THEN None ELSE Some(ParseDigits(s, 0))

\* parseInt(result.order_id.split('-')[1], 10); a missing second part is
\* undefined, which parses to NaN.
OrderBookingId(order_id) ==
    LET orderIdParts == SplitOn(order_id, "-")
    IN  IF Len(orderIdParts) < 2 THEN None ELSE ParseIntOrNaN(orderIdParts[2])

\* The order ids the gateway may report: the prefix alone; the prefix and a
\* second part; the prefix, a second part and a suffix.
IdTexts == {<<"1">>, <<"2">>, <<"1", "a">>, <<"a", "1">>, <<>>}

OrderIds ==
    {<<"o">>}
    \cup {<<"o", "-">> \o t : t \in IdTexts}
    \cup {<<"o", "-">> \o t \o <<"-", "7">> : t \in IdTexts}

\* The two rows handlePaymentSuccess inserts for a booking.
Notifications(bookingId, booking) ==
    << [user_id |-> booking.streamer_user_id, type |-> "confirmation",
        booking_id |-> bookingId, is_read |-> FALSE],
       [user_id |-> booking.client_id, type |-> "confirmation",
        booking_id |-> bookingId, is_read |-> FALSE] >>

SupportNotice == "Payment successful but encountered an error. Please contact support."
SuccessNotice == "Payment successful! Booking request has been sent."

\* handlePaymentSuccess(result) up to its first await: an order id whose
\* second part does not parse throws, which the catch block reports;
\* otherwise the booking is looked up.
handlePaymentSuccess(order_id) ==
    /\ successPc = None
    /\ LET bookingId == OrderBookingId(order_id)
       IN  IF bookingId = None
           THEN /\ toast' = SupportNotice
                /\ successPc' = None
                /\ lastSuccess' = Some([order_id |-> order_id, insert |-> "none",
                                        outcome |-> "support",
                                        notifications |-> notifications,
                                        orders |-> orders])
           ELSE /\ successPc' = Some([at |-> "select", bookingId |-> bookingId[1],
                                      booking |-> None])
                /\ lastSuccess' = Some([order_id |-> order_id, insert |-> "none",
                                        outcome |-> "running",
                                        notifications |-> notifications,
                                        orders |-> orders])
                /\ UNCHANGED toast
    /\ UNCHANGED <<bookingDetails, selectedHours, dataVars, payVars, histVars,
                   storeVars, fetchVars, orders, notifications, route>>

\* The lookup answers: no row (or a failed query, whose data is null) throws
\* 'Booking not found'; otherwise the notifications are built and inserted.
SelectBookingResponse(ok) ==
    /\ successPc # None
    /\ successPc[1].at = "select"
    /\ LET bookingId == successPc[1].bookingId
       IN  IF ok /\ bookingId \in DOMAIN orders
           THEN /\ successPc' = Some([successPc[1] EXCEPT
                                        !.at = "insert",
                                        !.booking = Some(orders[bookingId])])
                /\ UNCHANGED <<toast, lastSuccess>>
           ELSE /\ toast' = SupportNotice
                /\ successPc' = None
                /\ lastSuccess' = Some([lastSuccess[1] EXCEPT !.outcome = "support"])
    /\ UNCHANGED <<bookingDetails, selectedHours, dataVars, payVars, histVars,
                   storeVars, fetchVars, orders, notifications, route>>

\* The insert answering, for a handler that throws on notificationError.
InsertNotificationsResponseStrict(ok) ==
    /\ successPc # None
    /\ successPc[1].at = "insert"
    /\ IF ok
       THEN /\ notifications' = notifications \o
                   Notifications(successPc[1].bookingId, successPc[1].booking[1])
            /\ successPc' = Some([successPc[1] EXCEPT !.at = "update"])
            /\ lastSuccess' = Some([lastSuccess[1] EXCEPT !.insert = "ok"])
            /\ UNCHANGED toast
       ELSE /\ toast' = SupportNotice
            /\ successPc' = None
            /\ lastSuccess' = Some([lastSuccess[1] EXCEPT !.insert = "failed",
                                                          !.outcome = "support"])
            /\ UNCHANGED notifications
    /\ UNCHANGED <<bookingDetails, selectedHours, dataVars, payVars, histVars,
                   storeVars, fetchVars, orders, route>>

\* The insert answers: both rows are written, or none is and the error is
\* logged; either way the handler goes on to the update.
InsertNotificationsResponse(ok) ==
    /\ successPc # None
    /\ successPc[1].at = "insert"
    /\ notifications' =
          IF ok THEN notifications \o
                       Notifications(successPc[1].bookingId, successPc[1].booking[1])
          ELSE notifications
    /\ successPc' = Some([successPc[1] EXCEPT !.at = "update"])
    /\ lastSuccess' = Some([lastSuccess[1] EXCEPT
                              !.insert = IF ok THEN "ok" ELSE "failed"])
    /\ UNCHANGED <<bookingDetails, selectedHours, dataVars, payVars, histVars,
                   storeVars, fetchVars, orders, route, toast>>

\* The update answering, for a handler that sets the status to accepted.
UpdateBookingResponseAccepted ==
    /\ successPc # None
    /\ successPc[1].at = "update"
    /\ orders' = [orders EXCEPT ![successPc[1].bookingId].status = "accepted"]
    /\ toast' = SuccessNotice
    /\ route' = ClientBookings
    /\ successPc' = None
    /\ lastSuccess' = Some([lastSuccess[1] EXCEPT !.outcome = "succeeded"])
    /\ UNCHANGED <<bookingDetails, selectedHours, dataVars, payVars, histVars,
                   storeVars, fetchVars, notifications>>

\* The update answers (its result is not looked at): the row's status is
\* pending, the success notice is shown and the router pushed.
UpdateBookingResponse ==
    /\ successPc # None
    /\ successPc[1].at = "update"
    /\ orders' = [orders EXCEPT ![successPc[1].bookingId].status = "pending"]
    /\ toast' = SuccessNotice
    /\ route' = ClientBookings
    /\ successPc' = None
    /\ lastSuccess' = Some([lastSuccess[1] EXCEPT !.outcome = "succeeded"])
    /\ UNCHANGED <<bookingDetails, selectedHours, dataVars, payVars, histVars,
                   storeVars, fetchVars, notifications>>

\* The PaymentModal, rendered while paymentToken is set, reports what the
\* gateway says through the callback it was given; closing is the user's.
PaymentModalShown == paymentToken # None

ModalPending == PaymentModalShown /\ handlePaymentPending
ModalError   == PaymentModalShown /\ handlePaymentError
ModalClose   == PaymentModalShown /\ handlePaymentClose

\* The gateway reports success while the page is still the one shown.
ModalSuccess(order_id) ==
    PaymentModalShown /\ route = BookingPage /\ handlePaymentSuccess(order_id)

----------------------------------------------------------------------------
(* Specifications. *)

\* The streamer's data the page is run against: the schedule of one slot
\* over all the hours of day 0's weekday (or no schedule row), and the
\* bookings table empty or holding one accepted booking of the last hour
\* but one.
ScenarioSchedule ==
    [wd \in {GetDay(0)} |->
        [slots |-> Some(<<[start |-> HourLabel(MaxHour - NumHours + 1),
                           end   |-> HourLabel(MaxHour + 1)]>>)]]

ScenarioBookings == {<<>>, <<BookingRow(0, MaxHour - 1, MaxHour, "accepted")>>}

\* The bookings table by id: booking 1, not yet pending, of a streamer whose
\* owner is one user and whose client is another.  There is no booking 2.
ScenarioOrders ==
    [id \in {1} |-> [status |-> "created", streamer_user_id |-> "streamer-owner",
                     client_id |-> "client"]]

ScenarioStore ==
    /\ orders = ScenarioOrders
    /\ notifications = <<>>

\* The URL's window; the last one is empty (startTime = endTime).
PageWindows == Windows \cup {<<HourLabel(MaxHour), HourLabel(MaxHour)>>}

Init ==
    /\ Constructed
    /\ ScenarioStore
    /\ storeSchedule \in {None, Some(ScenarioSchedule)}
    /\ storeBookings \in ScenarioBookings

Next ==
    \/ \E date \in Dates, w \in PageWindows : PageLoad(date, w[1], w[2], 100000)
    \/ \E req \in bookingsReqs, ok \in BOOLEAN : FetchBookingsResponse(req, ok)
    \/ \E ok \in BOOLEAN : FetchActiveScheduleResponse(ok)
    \/ \E rows \in ScenarioBookings : BookingChange(rows)
    \/ ConfirmClick
    \/ \E i \in 1..Len(confirmPc), user \in BOOLEAN : GetUserResponse(i, user)
    \/ \E i \in 1..Len(confirmPc), outcome \in PaymentOutcomes :
          CreatePaymentResponse(i, outcome)
    \/ ModalPending
    \/ ModalError
    \/ ModalClose

Spec == Init /\ [][Next]_vars

\* The availability resolver and the option generator on every schedule,
\* bookings snapshot and window of the bounds: the page after both fetches
\* have answered, the schedule row possibly missing.
LoadedPage(date, w, price, schedule, rows) ==
    /\ bookingDetails = Some([date |-> date, startTime |-> w[1],
                              endTime |-> w[2], price |-> price])
    /\ selectedHours = HourRange(ParseInt(SplitHead(w[1])),
                                 ParseInt(SplitHead(w[2])) - ParseInt(SplitHead(w[1])))
    /\ storeSchedule = schedule
    /\ activeSchedule = schedule
    /\ scheduleFetch = IF schedule = None THEN "error" ELSE "ok"
    /\ storeBookings = rows
    /\ bookings = FetchedBookings(rows)
    /\ bookingsFetch = "ok"
    /\ bookingsReqs = {}
    /\ subscriptions = 1
    /\ issued = 1
    /\ newestOk = FetchCall(1, rows)
    /\ ScenarioStore
    /\ route = BookingPage
    /\ successPc = None
    /\ lastSuccess = None
    /\ paymentToken = None
    /\ isLoading = FALSE
    /\ toast = "none"
    /\ confirmPc = Idle
    /\ timeOptions = None
    /\ lastHour = None
    /\ prevSelected = <<>>
    /\ twice = None

InitAvail ==
    \E date \in Dates, w \in Windows,
       schedule \in {None} \cup {Some(x) : x \in Schedules},
       rows \in SeqsUpTo(BookingRows, MaxBookings) :
        LoadedPage(date, w, 0, schedule, rows)

NextAvail == RenderTimeOptions

SpecAvail == InitAvail /\ [][NextAvail]_vars

\* The toggler on every schedule of the page's weekday and every snapshot of
\* active bookings of the page's date, from the widest window.
FullWindow == <<HourLabel(MaxHour - NumHours + 1), HourLabel(MaxHour + 1)>>

InitToggle ==
    \E date \in Dates, schedule \in Schedules,
       rows \in SeqsUpTo({r \in BookingRows :
                            r.start_time.day \in Dates /\ r.status = "accepted"},
                         MaxBookings) :
        LoadedPage(date, FullWindow, 0, Some(schedule), rows)

NextToggle == \E hour \in HourLabels : handleHourSelection(hour)

SpecToggle == InitToggle /\ [][NextToggle]_vars

\* The price breakdown on every price and window of the bounds.
InitPrice ==
    /\ Constructed
    /\ ScenarioStore
    /\ storeSchedule = Some(ScenarioSchedule)
    /\ storeBookings = <<>>

NextPrice ==
    \E date \in Dates, w \in PageWindows, price \in Prices :
        PageLoad(date, w[1], w[2], price)

SpecPrice == InitPrice /\ [][NextPrice]_vars

\* The loaded page from the hour toggles to the payment token: the schedule
\* covers every hour, the last hour but one is booked, the window is the
\* widest one or empty.
InitConfirm ==
    \E date \in Dates, w \in {FullWindow, <<HourLabel(MaxHour), HourLabel(MaxHour)>>} :
        LoadedPage(date, w, 100000, Some(ScenarioSchedule),
                   <<BookingRow(0, MaxHour - 1, MaxHour, "accepted")>>)

NextConfirm ==
    \/ \E hour \in HourLabels : handleHourSelection(hour)
    \/ ConfirmClick
    \/ \E i \in 1..Len(confirmPc), user \in BOOLEAN : GetUserResponse(i, user)
    \/ \E i \in 1..Len(confirmPc), outcome \in PaymentOutcomes :
          CreatePaymentResponse(i, outcome)
    \/ ModalClose

SpecConfirm == InitConfirm /\ [][NextConfirm]_vars

\* The loaded page from the confirmation to the payment's result, on every
\* order id the gateway may report.
InitPay ==
    \E date \in Dates :
        LoadedPage(date, FullWindow, 100000, Some(ScenarioSchedule), <<>>)

NextPay ==
    \/ ConfirmClick
    \/ \E i \in 1..Len(confirmPc), user \in BOOLEAN : GetUserResponse(i, user)
    \/ \E i \in 1..Len(confirmPc), outcome \in PaymentOutcomes :
          CreatePaymentResponse(i, outcome)
    \/ ModalPending
    \/ ModalError
    \/ ModalClose
    \/ \E order_id \in OrderIds : ModalSuccess(order_id)
    \/ \E ok \in BOOLEAN : SelectBookingResponse(ok)
    \/ \E ok \in BOOLEAN : InsertNotificationsResponse(ok)
    \/ UpdateBookingResponse

SpecPay == InitPay /\ [][NextPay]_vars

----------------------------------------------------------------------------
(* Vocabulary of the properties, stated without the page's own parsing and *)
(* formatting.                                                             *)

\* The hours the properties are asked about: those of the model, one
\* before and one after.
ClockHours == (MaxHour - NumHours)..(MaxHour + 1)
AllDays == BookingDays

\* "HH:00" written out digit by digit.
TwoDigit(h) == <<Chars[(h \div 10) + 1], Chars[(h % 10) + 1], ":", "0", "0">>

\* The hour a label "HH:00" stands for.
DigitOf(c) == CHOOSE d \in 0..9 : Chars[d + 1] = c
LabelHour(label) == 10 * DigitOf(label[1]) + DigitOf(label[2])

IsLabel(label) == Len(label) = 5 /\ label = TwoDigit(LabelHour(label))

\* Some TimeSlot of the date's weekday holds the hour: start <= hour < end.
SlotCovers(date, hour) ==
    /\ activeSchedule # None
    /\ GetDay(date) \in DOMAIN activeSchedule[1]
    /\ activeSchedule[1][GetDay(date)].slots # None
    /\ \E slot \in Range(activeSchedule[1][GetDay(date)].slots[1]) :
          LabelHour(slot.start) <= hour /\ hour < LabelHour(slot.end)

\* The bookings of the snapshot that start on the date.
BookingsOn(date) ==
    {bookings[i] : i \in {j \in 1..Len(bookings) : bookings[j].start_time.day = date}}

StrictlyAscending(labels) ==
    \A i \in 1..Len(labels), j \in 1..Len(labels) :
        i < j => LabelHour(labels[i]) < LabelHour(labels[j])

LabelHours(labels) == {LabelHour(labels[i]) : i \in 1..Len(labels)}

SetMin(S) == CHOOSE x \in S : \A y \in S : x <= y
SetMax(S) == CHOOSE x \in S : \A y \in S : x >= y

PageDate == bookingDetails[1].date

----------------------------------------------------------------------------
(* Properties of the availability resolver and the option generator.       *)

\* C1: for every booking of the snapshot (all of them active) with start
\* hour s and end hour e on a date, isSlotAvailable(date, h) is false for
\* every hour s <= h < e, and for h = e when e > s; bookings whose end hour
\* is not after their start hour block nothing: on a date all of whose
\* bookings are such, an hour is available exactly when a TimeSlot of the
\* weekday holds it (so such a booking does not block its own end hour).
C1_BookedHoursUnavailable ==
    bookingDetails # None =>
      \A date \in AllDays :
        /\ \A b \in BookingsOn(date) :
              /\ b.status \in {"accepted", "pending"}
              /\ \A h \in ClockHours :
                    (b.start_time.hour <= h /\ h < b.end_time.hour)
                        => ~isSlotAvailable(date, h)
              /\ b.end_time.hour > b.start_time.hour
                    => ~isSlotAvailable(date, b.end_time.hour)
        /\ (\A b \in BookingsOn(date) : b.end_time.hour <= b.start_time.hour)
              => \A h \in ClockHours :
                    isSlotAvailable(date, h) <=> SlotCovers(date, h)

\* C1 witness: the snapshot holds a booking [s, e), e > s, whose hours s and
\* e lie in a TimeSlot of the weekday and are reported unavailable, and the
\* options generated for a window holding s leave s out.
C1_Witness ==
    /\ bookingDetails # None
    /\ timeOptions # None
    /\ \E b \in BookingsOn(PageDate) :
          LET s == b.start_time.hour
              e == b.end_time.hour
          IN  /\ e > s
              /\ SlotCovers(PageDate, s) /\ SlotCovers(PageDate, e)
              /\ ~isSlotAvailable(PageDate, s) /\ ~isSlotAvailable(PageDate, e)
              /\ LabelHour(bookingDetails[1].startTime) <= s
              /\ s < LabelHour(bookingDetails[1].endTime)
              /\ ~Includes(timeOptions[1], TwoDigit(s))

\* C2: for every date and hour, if the schedule is missing, has no entry
\* (or no slots) for the date's weekday, or no TimeSlot of that weekday
\* satisfies start <= h < end, isSlotAvailable(date, h) is false, whatever
\* the bookings are.
C2_OutsideSlotsUnavailable ==
    \A date \in AllDays, h \in ClockHours :
        ~SlotCovers(date, h) => ~isSlotAvailable(date, h)

\* C2 witness: options were generated against a schedule whose weekday has
\* a slot, with one hour of the window inside a slot and available and
\* another outside every slot, unbooked, and unavailable.
C2_Witness ==
    /\ bookingDetails # None
    /\ timeOptions # None
    /\ bookings = <<>>
    /\ \E h1 \in Hours, h2 \in Hours :
          /\ SlotCovers(PageDate, h1) /\ isSlotAvailable(PageDate, h1)
          /\ ~SlotCovers(PageDate, h2) /\ ~isSlotAvailable(PageDate, h2)
          /\ Includes(timeOptions[1], TwoDigit(h1))
          /\ LabelHour(bookingDetails[1].startTime) <= h2
          /\ h2 < LabelHour(bookingDetails[1].endTime)
          /\ ~Includes(timeOptions[1], TwoDigit(h2))

\* C8: generateTimeOptions returns, in ascending order and formatted HH:00,
\* exactly the whole hours requestedStart <= h < requestedEnd for which
\* isSlotAvailable(date, h) holds; an hour covered by a booking (accepted or
\* pending) of the snapshot on that date is not among them.
C8_OptionsAreAvailableHours ==
    (bookingDetails # None /\ timeOptions # None) =>
      LET options == timeOptions[1]
          requestedStart == LabelHour(bookingDetails[1].startTime)
          requestedEnd   == LabelHour(bookingDetails[1].endTime)
      IN  /\ \A i \in 1..Len(options) : IsLabel(options[i])
          /\ StrictlyAscending(options)
          /\ LabelHours(options) =
                {h \in requestedStart..(requestedEnd - 1) :
                    isSlotAvailable(PageDate, h)}
          /\ \A b \in BookingsOn(PageDate), h \in ClockHours :
                (b.start_time.hour <= h /\ h < b.end_time.hour)
                    => ~Includes(options, TwoDigit(h))

\* C8 witness: options generated for a window of at least three hours, some
\* offered, one left out because an accepted booking covers it although a
\* TimeSlot holds it.
C8_Witness ==
    /\ bookingDetails # None
    /\ timeOptions # None
    /\ Len(timeOptions[1]) >= 1
    /\ LabelHour(bookingDetails[1].endTime)
          - LabelHour(bookingDetails[1].startTime) >= 3
    /\ \E b \in BookingsOn(PageDate) :
          /\ b.status = "accepted"
          /\ b.start_time.hour < b.end_time.hour
          /\ LabelHour(bookingDetails[1].startTime) <= b.start_time.hour
          /\ b.start_time.hour < LabelHour(bookingDetails[1].endTime)
          /\ SlotCovers(PageDate, b.start_time.hour)
          /\ ~Includes(timeOptions[1], TwoDigit(b.start_time.hour))

----------------------------------------------------------------------------
(* Properties of the toggler.                                              *)

Available(h) == isSlotAvailable(PageDate, h)

Contiguous(labels) ==
    \A i \in 1..(Len(labels) - 1) :
        LabelHour(labels[i + 1]) = LabelHour(labels[i]) + 1

\* The last call of handleHourSelection added its hour (it was not selected).
AddedHour == lastHour # None /\ ~Includes(prevSelected, lastHour[1])

\* The hours of the selection being formed by the last call.
Forming ==
    IF AddedHour
    THEN LabelHours(prevSelected) \cup {LabelHour(lastHour[1])}
    ELSE LabelHours(prevSelected)

\* The list is exactly the available hours between its first and last hour.
AvailableRun(labels) ==
    /\ StrictlyAscending(labels)
    /\ labels # <<>> =>
          LabelHours(labels) =
            {h \in SetMin(LabelHours(labels))..SetMax(LabelHours(labels)) :
                Available(h)}

\* C4 as claimed: in every reachable state, a selection of more than one
\* hour is a contiguous run of hours each individually available.
C4_ContiguousAvailableAlways ==
    Len(selectedHours) > 1 =>
        /\ Contiguous(selectedHours)
        /\ \A h \in LabelHours(selectedHours) : Available(h)

\* C4 as amended: right after a toggle that adds an hour, a selection of
\* more than one hour holds only available hours, in ascending order, and is
\* contiguous up to unavailable hours: every hour between its first and its
\* last that it lacks is unavailable.
C4_AfterAddAvailableRun ==
    (AddedHour /\ Len(selectedHours) > 1) =>
        /\ \A h \in LabelHours(selectedHours) : Available(h)
        /\ StrictlyAscending(selectedHours)
        /\ \A h \in SetMin(LabelHours(selectedHours))..SetMax(LabelHours(selectedHours)) :
              h \notin LabelHours(selectedHours) => ~Available(h)

\* C4 witness: a toggle has added an hour and left a selection of several
\* available hours with a gap.
C4_Witness ==
    /\ AddedHour
    /\ Len(selectedHours) > 1
    /\ ~Contiguous(selectedHours)
    /\ \A h \in LabelHours(selectedHours) : Available(h)

\* C5 as claimed: toggling the same hour twice in a row leaves selectedHours
\* equal to its value before the first toggle.
C5_ToggleTwiceRestores ==
    twice # None => selectedHours = twice[1]

\* C5 as amended: toggling the same hour twice in a row restores the
\* selection when, before the first toggle, the selection is empty or is
\* exactly the available hours between its first and last hour, and the
\* first toggle changes it by that hour at most.
C5_ToggleTwiceRestoresRun ==
    (/\ twice # None
     /\ AvailableRun(twice[1])
     /\ \A x \in (Range(prevSelected) \ Range(twice[1]))
                    \cup (Range(twice[1]) \ Range(prevSelected)) : x = lastHour[1])
        => selectedHours = twice[1]

\* C5 witness: an hour was removed from a run of several available hours
\* and toggled back, restoring the run.
C5_Witness ==
    /\ twice # None
    /\ Len(twice[1]) >= 2
    /\ AvailableRun(twice[1])
    /\ Includes(twice[1], lastHour[1])
    /\ ~Includes(prevSelected, lastHour[1])
    /\ selectedHours = twice[1]

\* C6: the selection is always a strictly ascending (hence duplicate-free)
\* list of hours, and after a toggle all of them lie in the inclusive span
\* from the least to the greatest hour of the selection being formed (the
\* previous selection, plus the toggled hour when adding).
C6_AscendingWithinSpan ==
    /\ StrictlyAscending(selectedHours)
    /\ \A i \in 1..Len(selectedHours) : IsLabel(selectedHours[i])
    /\ lastHour # None =>
          \A h \in LabelHours(selectedHours) :
              SetMin(Forming) <= h /\ h <= SetMax(Forming)

\* C6 witness: a toggle added an hour below the selection and left at least
\* two hours, fewer than the span holds.
C6_Witness ==
    /\ AddedHour
    /\ prevSelected # <<>>
    /\ LabelHour(lastHour[1]) < SetMin(LabelHours(prevSelected))
    /\ Len(selectedHours) >= 2
    /\ Len(selectedHours) < SetMax(Forming) - SetMin(Forming) + 1

\* Adding an hour to a non-empty selection yields exactly the available
\* hours of the inclusive span between the new minimum and maximum.
SpanFilled ==
    (AddedHour /\ prevSelected # <<>>) =>
        /\ StrictlyAscending(selectedHours)
        /\ \A i \in 1..Len(selectedHours) : IsLabel(selectedHours[i])
        /\ LabelHours(selectedHours) =
              {h \in SetMin(Forming)..SetMax(Forming) : Available(h)}

\* The last call toggled 12:00 with 10:00 alone selected.
Added12To10 ==
    /\ AddedHour
    /\ prevSelected = <<TwoDigit(10)>>
    /\ lastHour[1] = TwoDigit(12)

\* C7 as claimed: the span is filled with its available hours, and with
\* 10:00 selected, 11:00 unavailable and 12:00 available, toggling 12:00
\* yields [10:00, 12:00].
C7_SpanFilledExample ==
    /\ SpanFilled
    /\ (Added12To10 /\ ~Available(11) /\ Available(12))
          => selectedHours = <<TwoDigit(10), TwoDigit(12)>>

\* C7 as amended: the span is filled with its available hours, and with
\* 10:00 selected and available, 11:00 unavailable and 12:00 available,
\* toggling 12:00 yields [10:00, 12:00].
C7_SpanFilledExampleAvailable ==
    /\ SpanFilled
    /\ (Added12To10 /\ Available(10) /\ ~Available(11) /\ Available(12))
          => selectedHours = <<TwoDigit(10), TwoDigit(12)>>

\* C7 witness: 12:00 toggled with 10:00 selected, 11:00 alone unavailable;
\* the selection is [10:00, 12:00].
C7_Witness ==
    /\ Added12To10
    /\ Available(10) /\ ~Available(11) /\ Available(12)
    /\ selectedHours = <<TwoDigit(10), TwoDigit(12)>>

----------------------------------------------------------------------------
(* Property of the price breakdown.                                        *)

\* C9: with s = price * number of selected hours, subtotal = s, platformFee
\* = 0.30 s, tax = 0.11 (s + platformFee) = 0.143 s, none of them rounded
\* (amounts are in thousandths), and total is the integer nearest to their
\* sum 1.443 s, a half rounded up; price 100000 and 2 hours give 200000,
\* 60000, 28600 and 288600.
C9_PriceBreakdown ==
    bookingDetails # None =>
      LET s == bookingDetails[1].price * Len(selectedHours) IN
      /\ bookingDetails[1].price >= 0
      /\ subtotal = 1000 * s
      /\ platformFee = 300 * s
      /\ tax = 143 * s
      /\ 2000 * total - 1000 <= 2886 * s
      /\ 2886 * s < 2000 * total + 1000
      /\ (bookingDetails[1].price = 100000 /\ Len(selectedHours) = 2)
            => /\ subtotal = 200000 * 1000
               /\ platformFee = 60000 * 1000
               /\ tax = 28600 * 1000
               /\ total = 288600

\* C9 witness: the page loaded with price 100000 and a window of two
\* hours, the total being 288600.
C9_Witness ==
    /\ bookingDetails # None
    /\ bookingDetails[1].price = 100000
    /\ Len(selectedHours) = 2
    /\ total = 288600

----------------------------------------------------------------------------
(* Properties of the page's flow.                                          *)

\* C3: while the schedule or the bookings have not been fetched
\* successfully, isSlotAvailable is false for every date and hour.
C3_FailClosed ==
    (scheduleFetch # "ok" \/ bookingsFetch # "ok") =>
        \A date \in AllDays, h \in ClockHours : ~isSlotAvailable(date, h)

\* C10: when the gateway reports an error while the payment dialog is
\* open, the token is cleared: paymentToken is null afterwards and the
\* dialog is no longer shown.
C10_ErrorClearsToken ==
    [][ModalError => (paymentToken' = None /\ ~PaymentModalShown')]_vars

----------------------------------------------------------------------------
(* Properties of the confirmation.                                         *)

\* C11: a request for a payment token is in flight only for a selection
\* that, when the user clicked, was non-empty and contiguous: confirming an
\* empty or a gapped selection sends no request.
C11_RequestOnlyForContiguousSelection ==
    \A i \in RunsAt("createPayment") :
        /\ confirmPc[i].hours # <<>>
        /\ Contiguous(confirmPc[i].hours)

LoginNotice == "You must be logged in to confirm a booking."
InitNotice == "Failed to initiate payment. Please try again."

\* The requests for a payment token in flight.
TokenRequests(runs) == {i \in 1..Len(runs) : runs[i].at = "createPayment"}

\* C15: when getUser answers without a user, the handler sends no request
\* for a token, leaves paymentToken and selectedHours as they were, shows
\* the log-in notice and returns with isLoading false and no run left.
C15_NotAuthenticatedChangesNothing ==
    [][ (\E i \in 1..Len(confirmPc) : GetUserResponse(i, FALSE)) =>
            /\ Cardinality(TokenRequests(confirmPc'))
                  = Cardinality(TokenRequests(confirmPc))
            /\ paymentToken' = paymentToken
            /\ selectedHours' = selectedHours
            /\ isLoading' = FALSE
            /\ confirmPc' = Idle
            /\ toast' = LoginNotice ]_vars

\* A confirmation of a non-empty selection has ended at the log-in notice:
\* nothing is loading, no token is set.
C15_Witness ==
    /\ toast = LoginNotice
    /\ selectedHours # <<>>
    /\ ~isLoading
    /\ confirmPc = Idle
    /\ paymentToken = None

\* C16: when the request for a token fails (a response that is not OK, one
\* without a token, a transport error) the handler sets no token and returns
\* with isLoading false and no run left, so that the button starts a new
\* request; and paymentToken becomes set only by a response carrying a token.
C16_TokenFailureReturnsToIdle ==
    [][ /\ (\E i \in 1..Len(confirmPc), outcome \in PaymentOutcomes \ {"token"} :
                CreatePaymentResponse(i, outcome)) =>
            /\ paymentToken' = paymentToken
            /\ isLoading' = FALSE
            /\ confirmPc' = Idle
            /\ bookingDetails' # None
            /\ toast' = InitNotice
        /\ (paymentToken = None /\ paymentToken' # None) =>
            \E i \in TokenRequests(confirmPc) :
                /\ confirmPc' = RemoveAt(confirmPc, i)
                /\ isLoading' = FALSE ]_vars

\* A request for a token has failed on a page whose selection is never
\* empty: the notice is shown, nothing is loading, no token is set.
C16_Witness ==
    /\ toast = InitNotice
    /\ selectedHours # <<>>
    /\ ~isLoading
    /\ confirmPc = Idle
    /\ paymentToken = None

\* C17: at most one run of handleConfirmBooking is under way and so at most
\* one request for a token is in flight; isLoading is true exactly while a
\* run is under way, so a click while it is true starts nothing and every
\* way out of the handler has reset it.
C17_OneTokenRequestInFlight ==
    /\ Len(confirmPc) <= 1
    /\ Cardinality(TokenRequests(confirmPc)) <= 1
    /\ isLoading <=> (confirmPc # Idle)

\* A request for a token is in flight and the button is disabled.
C17_Witness ==
    /\ Cardinality(TokenRequests(confirmPc)) = 1
    /\ isLoading

----------------------------------------------------------------------------
(* Properties of the success handler.                                      *)

\* The order id's booking-id part, the text between its first and second
\* dash, if there is one.
BookingIdPart(order_id) ==
    LET dashes == {i \in 1..Len(order_id) : order_id[i] = "-"}
    IN  IF dashes = {} THEN None
        ELSE LET first == SetMin(dashes)
                 later == {i \in dashes : i > first}
                 stop  == IF later = {} THEN Len(order_id) + 1 ELSE SetMin(later)
             IN  Some(SubSeq(order_id, first + 1, stop - 1))

IsInteger(text) == text # <<>> /\ \A i \in 1..Len(text) : IsDigit(text[i])

\* A well-formed order id, and the booking id it names.
WellFormed(order_id) ==
    BookingIdPart(order_id) # None /\ IsInteger(BookingIdPart(order_id)[1])

NamedBooking(order_id) ==
    CHOOSE n \in 0..99 : ToString(n) = BookingIdPart(order_id)[1]

\* This step ends a run of handlePaymentSuccess.
SuccessRunEnds ==
    /\ lastSuccess' # None
    /\ lastSuccess' # lastSuccess
    /\ lastSuccess'[1].outcome # "running"

\* What the claim has the handler end with for booking id: the row pending,
\* two rows added to the notifications the run started with, one for the
\* streamer's owner and one for the client, both confirmations and unread,
\* and the client bookings view shown.
EndsSucceeded(id) ==
    /\ orders'[id].status = "pending"
    /\ Len(notifications') = Len(lastSuccess'[1].notifications) + 2
    /\ SubSeq(notifications', 1, Len(lastSuccess'[1].notifications))
          = lastSuccess'[1].notifications
    /\ LET n == Len(notifications')
           added == {notifications'[n - 1], notifications'[n]}
       IN  /\ {row.user_id : row \in added}
                = {orders[id].streamer_user_id, orders[id].client_id}
           /\ \A row \in added :
                row.type = "confirmation" /\ ~row.is_read /\ row.booking_id = id
    /\ route' = ClientBookings

C13_MalformedOrderIdAborts ==
    (lastSuccess # None /\ ~WellFormed(lastSuccess[1].order_id)) =>
        /\ notifications = lastSuccess[1].notifications
        /\ orders = lastSuccess[1].orders
        /\ route = BookingPage
        /\ successPc = None
        /\ lastSuccess[1].outcome = "support"

----------------------------------------------------------------------------
(* Properties of the bookings fetches.                                     *)

\* C18: at most one booking-change subscription is open, and a change of
\* the table makes the page call fetchBookings at most once.
C18_AtMostOneSubscription ==
    [][ /\ subscriptions' <= 1
        /\ (storeBookings' # storeBookings => issued' <= issued + 1) ]_vars

\* C19: the local snapshot is that of the latest-made fetch among those
\* answered without error: the answer to an earlier call never replaces the
\* rows of a later one, a failed call replaces nothing, and once every call
\* has been answered the snapshot is the latest successful call's.
C19_LatestFetchWins ==
    bookings = newestOk.rows

====
